---- MODULE Spec2Model ----
(***************************************************************************)
(* A model of andresmdg/apirest: a Fastify REST service for one resource  *)
(* ("user").  The repository holds two iterations of the application:     *)
(*   - the in-memory variant (src/src/app.ts): a module-level array       *)
(*     `users` and a counter `nextId`; handlers contain no await, so     *)
(*     each handler runs to completion as one step;                       *)
(*   - the file-backed variant (src/unnamed/part_001, part_002): a        *)
(*     Service over a Database that keeps the parsed db/data.json in      *)
(*     memory and rewrites the file after every create and delete.        *)
(* Strings that are compared case-insensitively (emails) are tuples of    *)
(* character codes, so that toLowerCase is computed and not assumed.      *)
(***************************************************************************)
EXTENDS Integers, Sequences, FiniteSets, TLC

\* ------------------------------------------------------------------ bounds

\* MAX_USERS is 999 in the source (src/unnamed/part_002:175); the model
\* runs the same code with a small capacity so that the full store, the
\* exhausted counter and every id outside the range are reached.
MAX_USERS == 2

\* How far nextId may run past MAX_USERS (it is incremented by every create
\* that reaches the allocation, also by those that are then rejected).
IdSlack == 2

\* ------------------------------------------------------- strings and inputs

\* Character codes: "A".."Z" are 65..90, "a".."z" are 97..122.
toLowerCaseChar(c) == IF c \in 65..90 THEN c + 32 ELSE c

\* String.prototype.toLowerCase on a tuple of character codes.
toLowerCase(s) == [i \in 1..Len(s) |-> toLowerCaseChar(s[i])]

\* Local parts: the letters "a", "b", ... (one more than the store has slots,
\* so that a fresh email exists when the store is full) and "A".
LocalChars == (97..(97 + MAX_USERS)) \cup {65}

\* The emails requests carry: "<c>@x.i" for each local part c, all of which
\* match createUserSchema's pattern.
Emails == { <<c, 64, 120, 46, 105>> : c \in LocalChars }

Names == {"Ann", "Bob"}

\* The ids requests carry in their path: in range, and -1, 0 and MAX_USERS+1.
IdInputs == (-1)..(MAX_USERS + 1)

\* Update bodies: every subset of {name, email} may be supplied.
UpdateBodies ==
    { [k \in {} |-> 0] }
    \cup { [name |-> n] : n \in Names }
    \cup { [email |-> e] : e \in Emails }
    \cup { [name |-> n, email |-> e] : n \in Names, e \in Emails }

\* Errors that reach the error handler of the in-memory application, whose
\* route handlers throw nothing themselves: two ways a request body fails to
\* parse before its handler is called.
Faults ==
    { [message |-> "Unexpected end of JSON input"],
      [message |-> "Body cannot be empty when content-type is set to 'application/json'"] }

VARIABLES
    variant,      \* which application is deployed: "mem" or "file"
    users,        \* in-memory variant: the array `users`
    nextId,       \* in-memory variant: the counter `nextId`
    req,          \* the request being answered, NoRequest between exchanges
    resp,         \* the reply built for it: [code, body]
    data,         \* file-backed variant: Database.data, collection name -> items
    file,         \* file-backed variant: the content of db/data.json
    calls,        \* concurrently dispatched requests: racer -> its handler's position
    nCreated,     \* history: number of creates answered 201 (saturates above MAX_USERS)
    assignedIds,  \* history: ids that creates have given to records
    deletedIds    \* history: ids whose delete was answered 200

vars == <<variant, users, nextId, req, resp, data, file, calls,
          nCreated, assignedIds, deletedIds>>

\* No exchange in progress: the last reply has been sent and the next request
\* has not been dispatched.
NoRequest == [method |-> "NONE"]
NoReply == [code |-> 0]

\* An object without keys: `{}`, which Database.read returns when the file
\* cannot be read, and the value of the file-backed state in the in-memory
\* variant, which has none.
NoData == << >>

\* No request has been dispatched concurrently.
NoCalls == << >>

\* ------------------------------------------------------ response.ts

ok(payload, message) ==
    [code |-> 200, body |-> [success |-> TRUE, message |-> message, data |-> payload]]

created(payload, message) ==
    [code |-> 201, body |-> [success |-> TRUE, message |-> message, data |-> payload]]

notfoundWithData(message) ==
    [code |-> 404,
     body |-> [success |-> FALSE, message |-> message, error |-> "Resource not found",
               data |-> << >>]]

notfound(message) ==
    [code |-> 404,
     body |-> [success |-> FALSE, message |-> message, error |-> "Resource not found"]]

badrequest(error) ==
    [code |-> 400, body |-> [success |-> FALSE, message |-> "Bad Request", error |-> error]]

conflictAsBadRequest(error) ==
    [code |-> 400, body |-> [success |-> FALSE, message |-> "Conflict", error |-> error]]

conflict(error) ==
    [code |-> 409, body |-> [success |-> FALSE, message |-> "Conflict", error |-> error]]

servererror(error, message) ==
    [code |-> 500, body |-> [success |-> FALSE, message |-> message, error |-> error]]

\* The value null, the payload of the health check.
Null == [null |-> TRUE]

\* ------------------------------------------------------ user.service.ts

validateIdNoUpper(id) == id > 0

validateIdNoLower(id) == id <= MAX_USERS

validateId(id) == id > 0 /\ id <= MAX_USERS

isEmailTakenCaseSensitive(us, email, excludeId) ==
    \E i \in 1..Len(us) :
        /\ us[i].email = email
        /\ (IF excludeId # 0 THEN us[i].id # excludeId ELSE TRUE)

\* excludeId is optional in the source and tested by truthiness
\* (`excludeId ? ... : true`): undefined and 0 behave alike, and 0 stands
\* for the omitted argument here.
isEmailTaken(us, email, excludeId) ==
    \E i \in 1..Len(us) :
        /\ toLowerCase(us[i].email) = toLowerCase(email)
        /\ (IF excludeId # 0 THEN us[i].id # excludeId ELSE TRUE)

hasReachedUserLimitOffByOne(us) == Len(us) > MAX_USERS

hasReachedUserLimit(us) == Len(us) >= MAX_USERS

\* ------------------------------------------------------ array helpers

\* Array.prototype.findIndex(u => u.id === id), 1-based; 0 when the source
\* gets -1 (no element matches).
findIndex(us, id) ==
    IF \E i \in 1..Len(us) : us[i].id = id
    THEN CHOOSE i \in 1..Len(us) :
            /\ us[i].id = id
            /\ \A j \in 1..(i - 1) : us[j].id # id
    ELSE 0

spliceLast(us, index) == SubSeq(us, 1, Len(us) - 1)

\* Array.prototype.splice(index, 1): the array without its index-th element.
splice(us, index) == SubSeq(us, 1, index - 1) \o SubSeq(us, index + 1, Len(us))

IdsOf(us) == { us[i].id : i \in 1..Len(us) }

MaxOf(S) == CHOOSE m \in S : \A x \in S : x <= m

\* ------------------------------------------------------ POST /users

AllocIdNoIncrement(us, nid) == [id |-> nid, nextId |-> nid]

AllocIdMaxScan(us, nid) ==
    [id |-> IF Len(us) > 0 THEN MaxOf(IdsOf(us)) + 1 ELSE 1, nextId |-> nid + 1]

AllocIdLowestFree(us, nid) ==
    [id |-> CHOOSE k \in 1..(Len(us) + 1) :
                k \notin IdsOf(us) /\ \A j \in 1..(k - 1) : j \in IdsOf(us),
     nextId |-> nid + 1]

\* `id: nextId++`: the new record takes the counter's value and the counter
\* moves on, whatever happens to the record afterwards.
AllocId(us, nid) == [id |-> nid, nextId |-> nid + 1]

\* The handler without its capacity and id checks, as in the file-backed
\* iteration of the route, which tests the email only.
PostUsersStepEmailOnly(us, nid, name, email) ==
    IF isEmailTaken(us, email, 0)
    THEN [users |-> us, nextId |-> nid, reply |-> conflict("Email already registered")]
    ELSE LET a == AllocId(us, nid)
             newUser == [id |-> a.id, name |-> name, email |-> email]
         IN  [users |-> Append(us, newUser), nextId |-> a.nextId,
              reply |-> created(newUser, "User created successfully")]

\* The handler with unshift in place of push.
PostUsersStepUnshift(us, nid, name, email) ==
    IF hasReachedUserLimit(us)
    THEN [users |-> us, nextId |-> nid,
          reply |-> badrequest("Cannot register more users: memory limit reached")]
    ELSE IF isEmailTaken(us, email, 0)
    THEN [users |-> us, nextId |-> nid, reply |-> conflict("Email already registered")]
    ELSE LET a == AllocId(us, nid)
             newUser == [id |-> a.id, name |-> name, email |-> email]
         IN  IF ~validateId(newUser.id)
             THEN [users |-> us, nextId |-> a.nextId,
                   reply |-> badrequest("User ID exceeds maximum allowed value")]
             ELSE [users |-> <<newUser>> \o us, nextId |-> a.nextId,
                   reply |-> created(newUser, "User created successfully")]

\* The handler with the id allocated ahead of the email test.
PostUsersStepAllocFirst(us, nid, name, email) ==
    IF hasReachedUserLimit(us)
    THEN [users |-> us, nextId |-> nid,
          reply |-> badrequest("Cannot register more users: memory limit reached")]
    ELSE LET a == AllocId(us, nid)
             newUser == [id |-> a.id, name |-> name, email |-> email]
         IN  IF isEmailTaken(us, email, 0)
             THEN [users |-> us, nextId |-> a.nextId,
                   reply |-> conflict("Email already registered")]
             ELSE IF ~validateId(newUser.id)
             THEN [users |-> us, nextId |-> a.nextId,
                   reply |-> badrequest("User ID exceeds maximum allowed value")]
             ELSE [users |-> Append(us, newUser), nextId |-> a.nextId,
                   reply |-> created(newUser, "User created successfully")]

\* The handler without the test of the fresh id.
PostUsersStepNoIdCheck(us, nid, name, email) ==
    IF hasReachedUserLimit(us)
    THEN [users |-> us, nextId |-> nid,
          reply |-> badrequest("Cannot register more users: memory limit reached")]
    ELSE IF isEmailTaken(us, email, 0)
    THEN [users |-> us, nextId |-> nid, reply |-> conflict("Email already registered")]
    ELSE LET a == AllocId(us, nid)
             newUser == [id |-> a.id, name |-> name, email |-> email]
         IN  [users |-> Append(us, newUser), nextId |-> a.nextId,
              reply |-> created(newUser, "User created successfully")]

\* The handler with the email test ahead of the capacity test.
PostUsersStepEmailFirst(us, nid, name, email) ==
    IF isEmailTaken(us, email, 0)
    THEN [users |-> us, nextId |-> nid, reply |-> conflict("Email already registered")]
    ELSE IF hasReachedUserLimit(us)
    THEN [users |-> us, nextId |-> nid,
          reply |-> badrequest("Cannot register more users: memory limit reached")]
    ELSE LET a == AllocId(us, nid)
             newUser == [id |-> a.id, name |-> name, email |-> email]
         IN  IF ~validateId(newUser.id)
             THEN [users |-> us, nextId |-> a.nextId,
                   reply |-> badrequest("User ID exceeds maximum allowed value")]
             ELSE [users |-> Append(us, newUser), nextId |-> a.nextId,
                   reply |-> created(newUser, "User created successfully")]

\* The handler of POST /users on the store (us, nid): the store it leaves
\* and the reply it sends.
PostUsersStep(us, nid, name, email) ==
    IF hasReachedUserLimit(us)
    THEN [users |-> us, nextId |-> nid,
          reply |-> badrequest("Cannot register more users: memory limit reached")]
    ELSE IF isEmailTaken(us, email, 0)
    THEN [users |-> us, nextId |-> nid, reply |-> conflict("Email already registered")]
    ELSE LET a == AllocId(us, nid)
             newUser == [id |-> a.id, name |-> name, email |-> email]
         IN  IF ~validateId(newUser.id)
             THEN [users |-> us, nextId |-> a.nextId,
                   reply |-> badrequest("User ID exceeds maximum allowed value")]
             ELSE [users |-> Append(us, newUser), nextId |-> a.nextId,
                   reply |-> created(newUser, "User created successfully")]

\* What the handler's run s leaves behind, with the history of the run.
PostUsersEffect(s) ==
    /\ s.nextId <= MAX_USERS + IdSlack + 1
    /\ users' = s.users
    /\ nextId' = s.nextId
    /\ nCreated' = IF s.reply.code = 201 /\ nCreated <= MAX_USERS
                   THEN nCreated + 1 ELSE nCreated
    /\ assignedIds' = IF s.reply.code = 201
                      THEN assignedIds \cup {s.reply.body.data.id}
                      ELSE assignedIds

PostUsers(name, email) ==
    /\ variant = "mem"
    /\ req = NoRequest
    /\ LET s == PostUsersStep(users, nextId, name, email)
       IN  /\ PostUsersEffect(s)
           /\ req' = [method |-> "POST", body |-> [name |-> name, email |-> email]]
           /\ resp' = s.reply
    /\ UNCHANGED <<variant, data, file, calls, deletedIds>>

\* ------------------------------------------------------ GET /

Health ==
    /\ variant = "mem"
    /\ req = NoRequest
    /\ req' = [method |-> "HEALTH"]
    /\ resp' = ok(Null, "Server works")
    /\ UNCHANGED <<variant, users, nextId, data, file, calls, nCreated, assignedIds, deletedIds>>

\* ------------------------------------------------------ GET /users

GetUsers ==
    /\ variant = "mem"
    /\ req = NoRequest
    /\ req' = [method |-> "GET"]
    /\ resp' = ok(users, "List of users")
    /\ UNCHANGED <<variant, users, nextId, data, file, calls, nCreated, assignedIds, deletedIds>>

\* ------------------------------------------------------ PUT /users/:id

ApplyFieldsOverwrite(user, body) ==
    [id |-> user.id,
     name |-> IF "name" \in DOMAIN body THEN body.name ELSE "",
     email |-> IF "email" \in DOMAIN body THEN body.email ELSE << >>]

ApplyFieldsLowercase(user, body) ==
    [id |-> user.id,
     name |-> IF "name" \in DOMAIN body THEN body.name ELSE user.name,
     email |-> IF "email" \in DOMAIN body THEN toLowerCase(body.email) ELSE user.email]

\* `if (name !== undefined) user.name = name`, and the same for email.
ApplyFields(user, body) ==
    [id |-> user.id,
     name |-> IF "name" \in DOMAIN body THEN body.name ELSE user.name,
     email |-> IF "email" \in DOMAIN body THEN body.email ELSE user.email]

\* `email && ...`: the email was supplied and is not the empty string.
Truthy(body, key) == key \in DOMAIN body /\ body[key] # << >>

\* The handler with the name assigned ahead of the uniqueness test.
PutUserStepAssignFirst(us, id, body) ==
    IF ~validateId(id)
    THEN [users |-> us, reply |-> badrequest("Invalid user ID")]
    ELSE LET index == findIndex(us, id)
         IN  IF index = 0
             THEN [users |-> us, reply |-> notfound("User not found")]
             ELSE LET named == ApplyFields(us[index], [k \in DOMAIN body \ {"email"} |-> body[k]])
                      user == ApplyFields(us[index], body)
                  IN  IF Truthy(body, "email") /\ isEmailTaken(us, body.email, id)
                      THEN [users |-> [us EXCEPT ![index] = named],
                            reply |-> conflict("Email already registered")]
                      ELSE [users |-> [us EXCEPT ![index] = user],
                            reply |-> ok(user, "User updated successfully")]

\* The handler with the uniqueness test ahead of the lookup.
PutUserStepEmailFirst(us, id, body) ==
    IF ~validateId(id)
    THEN [users |-> us, reply |-> badrequest("Invalid user ID")]
    ELSE IF Truthy(body, "email") /\ isEmailTaken(us, body.email, id)
    THEN [users |-> us, reply |-> conflict("Email already registered")]
    ELSE LET index == findIndex(us, id)
         IN  IF index = 0
             THEN [users |-> us, reply |-> notfound("User not found")]
             ELSE LET user == ApplyFields(us[index], body)
                  IN  [users |-> [us EXCEPT ![index] = user],
                       reply |-> ok(user, "User updated successfully")]

\* The handler of PUT /users/:id on the array us: the array it leaves and the
\* reply it sends.
PutUserStep(us, id, body) ==
    IF ~validateId(id)
    THEN [users |-> us, reply |-> badrequest("Invalid user ID")]
    ELSE LET index == findIndex(us, id)
         IN  IF index = 0
             THEN [users |-> us, reply |-> notfound("User not found")]
             ELSE IF Truthy(body, "email") /\ isEmailTaken(us, body.email, id)
             THEN [users |-> us, reply |-> conflict("Email already registered")]
             ELSE LET user == ApplyFields(us[index], body)
                  IN  [users |-> [us EXCEPT ![index] = user],
                       reply |-> ok(user, "User updated successfully")]

PutUser(id, body) ==
    /\ variant = "mem"
    /\ req = NoRequest
    /\ LET s == PutUserStep(users, id, body)
       IN  /\ users' = s.users
           /\ req' = [method |-> "PUT", id |-> id, body |-> body]
           /\ resp' = s.reply
    /\ UNCHANGED <<variant, nextId, data, file, calls, nCreated, assignedIds, deletedIds>>

\* ------------------------------------------------------ DELETE /users/:id

DeleteUserStep(us, id) ==
    IF ~validateId(id)
    THEN [users |-> us, reply |-> badrequest("Invalid user ID")]
    ELSE LET index == findIndex(us, id)
         IN  IF index = 0
             THEN [users |-> us, reply |-> notfound("User not found")]
             ELSE [users |-> splice(us, index),
                   reply |-> ok(us[index], "User deleted successfully")]

DeleteUser(id) ==
    /\ variant = "mem"
    /\ req = NoRequest
    /\ LET s == DeleteUserStep(users, id)
       IN  /\ users' = s.users
           /\ req' = [method |-> "DELETE", id |-> id]
           /\ resp' = s.reply
           /\ deletedIds' = IF s.reply.code = 200 THEN deletedIds \cup {id} ELSE deletedIds
    /\ UNCHANGED <<variant, nextId, data, file, calls, nCreated, assignedIds>>

\* ------------------------------------------------------ error handler

\* The callback of setErrorHandler: servererror(reply, err.message), with
\* the default message 'Error'.
errorHandler(err) == servererror(err.message, "Error")

\* A request fails outside the route handlers with the error err and is
\* answered by the error handler; the store is not touched.
ErrorHandler(err) ==
    /\ variant = "mem"
    /\ req = NoRequest
    /\ req' = [method |-> "FAULT", err |-> err]
    /\ resp' = errorHandler(err)
    /\ UNCHANGED <<variant, users, nextId, data, file, calls, nCreated, assignedIds, deletedIds>>

\* ------------------------------------------------------ services.ts

\* The value of a missing property, where an array is expected.
Undefined == "undefined"

\* The value of a missing item (Array.prototype.find without a match).
UndefinedItem == [undefined |-> TRUE]

\* Array.isArray(x), for the values find returns.
isArray(x) == x # Undefined

\* Service.has
has(d, name) == name \in DOMAIN d

findOnDisk(d, name) == IF name \in DOMAIN file THEN file[name] ELSE Undefined

findOrEmpty(d, name) == IF name \in DOMAIN d THEN d[name] ELSE << >>

\* Service.find: this.#db.data[name]
find(d, name) == IF name \in DOMAIN d THEN d[name] ELSE Undefined

\* item[key] = value on an object
SetField(item, key, value) ==
    [k \in DOMAIN item \cup {key} |-> IF k = key THEN value ELSE item[k]]

\* dishes.filter(dish => dish['category'] === id)
DishesOf(dishes, id) ==
    LET Match(dish) == "category" \in DOMAIN dish /\ dish.category = id
    IN  SelectSeq(dishes, Match)

\* Service.findById: the item found (or undefined) and the data afterwards;
\* for the collection "categories" the callback writes item['dishes'] into
\* the item it matches.
findById(d, name, id) ==
    LET collection == find(d, name)
    IN  IF ~isArray(collection) \/ ~(\E i \in 1..Len(collection) : collection[i].id = id)
        THEN [data |-> d, item |-> UndefinedItem]
        ELSE LET index == findIndex(collection, id)
                 dishes == find(d, "dishes")
                 item == IF name = "categories"
                         THEN SetField(collection[index], "dishes",
                                       IF isArray(dishes) THEN DishesOf(dishes, id) ELSE << >>)
                         ELSE collection[index]
             IN  [data |-> [d EXCEPT ![name] = [collection EXCEPT ![index] = item]],
                  item |-> item]

ServiceCreateByLength(d, name, item) ==
    LET d1 == IF has(d, name) THEN d
              ELSE [k \in DOMAIN d \cup {name} |-> IF k = name THEN << >> ELSE d[k]]
        collection == d1[name]
        newItem == SetField(item, "id", Len(collection) + 1)
    IN  [data |-> [d1 EXCEPT ![name] = Append(collection, newItem)], newItem |-> newItem]

\* Service.create up to its `await this.#db.write()`: the data with the new
\* item pushed, and the item.  The id is 1 for an empty collection (or one
\* whose first item has no numeric id), else the largest id plus one.
ServiceCreate(d, name, item) ==
    LET d1 == IF has(d, name) THEN d
              ELSE [k \in DOMAIN d \cup {name} |-> IF k = name THEN << >> ELSE d[k]]
        collection == d1[name]
        id == IF Len(collection) > 0 /\ "id" \in DOMAIN collection[1]
              THEN MaxOf(IdsOf(collection)) + 1
              ELSE 1
        newItem == SetField(item, "id", id)
    IN  [data |-> [d1 EXCEPT ![name] = Append(collection, newItem)], newItem |-> newItem]

\* String(u['email'] ?? '')
EmailOf(u) == IF "email" \in DOMAIN u THEN u.email ELSE << >>

\* ------------------------------------------------------ GET /:name/:id

\* Number(id) of a path segment matching ^[0-9]+$: no negative ids arrive.
FileIdInputs == 0..(MAX_USERS + 1)

\* The collection names requests address; "posts" is in no file.
RouteNames == {"users", "posts"}

FileNotFound == [code |-> 404, body |-> [error |-> "Data not found"]]

FileGetById(name, id) ==
    /\ variant = "file"
    /\ req = NoRequest
    /\ LET s == findById(data, name, id)
       IN  /\ data' = s.data
           /\ req' = [method |-> "GET", name |-> name, id |-> id]
           /\ resp' = IF s.item = UndefinedItem
                      THEN FileNotFound
                      ELSE [code |-> 200, body |-> s.item]
    /\ UNCHANGED <<variant, users, nextId, file, calls, nCreated, assignedIds, deletedIds>>

\* ------------------------------------------------------ Service.deleteById

deleteByIdNoWrite(d, name, id) ==
    LET collection == find(d, name)
        index == IF isArray(collection) THEN findIndex(collection, id) ELSE 0
    IN  IF index # 0
        THEN [data |-> [d EXCEPT ![name] = splice(collection, index)],
              deleted |-> collection[index], write |-> FALSE]
        ELSE [data |-> d, deleted |-> UndefinedItem, write |-> FALSE]

deleteByIdAlwaysWrite(d, name, id) ==
    LET collection == find(d, name)
        index == IF isArray(collection) THEN findIndex(collection, id) ELSE 0
    IN  IF index # 0
        THEN [data |-> [d EXCEPT ![name] = splice(collection, index)],
              deleted |-> collection[index], write |-> TRUE]
        ELSE [data |-> d, deleted |-> UndefinedItem, write |-> TRUE]

\* Service.deleteById up to its `await this.#db.write()`: the data with the
\* item spliced out, the item, and whether write() is called; undefined and
\* no write when the collection or the id is missing.
deleteById(d, name, id) ==
    LET collection == find(d, name)
        index == IF isArray(collection) THEN findIndex(collection, id) ELSE 0
    IN  IF index # 0
        THEN [data |-> [d EXCEPT ![name] = splice(collection, index)],
              deleted |-> collection[index], write |-> TRUE]
        ELSE [data |-> d, deleted |-> UndefinedItem, write |-> FALSE]

\* ------------------------------------------------------ concurrent requests

\* The requests that may be in progress at once.
Racers == {1, 2}

\* Emails and bodies of the requests served by the file-backed application:
\* "a@x.i", "A@x.i" and "b@x.i".
FileEmails == { e \in Emails : e[1] \in {97, 65, 98} }

FileBodies == { [name |-> "Ann", email |-> e] : e \in FileEmails }

\* The ids of the deletes and lookups served: those a create can have
\* assigned, and one no create has assigned.
ServeIds == 1..(MAX_USERS + 1)

\* What a call keeps of its request.
RequestOf(call) == [k \in DOMAIN call \cap {"method", "name", "body", "id"} |-> call[k]]

\* The handler of call c has replied to request; persist tells whether it
\* called Database.write and how the write settled.
Answered(c, request, reply, persist) ==
    [calls EXCEPT ![c] = request @@ [pc |-> "replied", reply |-> reply, persist |-> persist]]

\* The handler of call c has replied without calling Database.write.
Replied(c, reply) == Answered(c, RequestOf(calls[c]), reply, "none")

\* The handler of call c has replied after its write settled as outcome.
Settled(c, reply, outcome) == Answered(c, RequestOf(calls[c]), reply, outcome)

\* The handler of call c is suspended in `await this.#db.write()`: the text
\* being written is JSON.stringify(this.data) as evaluated at the call.
Suspended(c, request, snapshot, key, item) ==
    [calls EXCEPT ![c] = request @@ [pc |-> "write", snapshot |-> snapshot, persist |-> "pending"]
                                 @@ [k \in {key} |-> item]]

\* In-memory variant: the handler of POST /users has no await and runs to
\* completion once it starts.
MemPostCall(c) ==
    /\ variant = "mem"
    /\ calls[c].pc = "dispatched"
    /\ LET s == PostUsersStep(users, nextId, calls[c].body.name, calls[c].body.email)
       IN  /\ PostUsersEffect(s)
           /\ calls' = Replied(c, s.reply)
    /\ UNCHANGED <<variant, req, resp, data, file, deletedIds>>

\* File-backed variant, POST /:name from its start to its first suspension:
\* find, the uniqueness test, and Service.create up to `await write()`.
FilePostRun(c, name, body) ==
    /\ variant = "file"
    /\ LET request == [method |-> "POST", name |-> name, body |-> body]
           current == find(data, name)
       IN  IF ~isArray(current)
           THEN /\ calls' = Answered(c, request, FileNotFound, "none")
                /\ data' = data
                /\ assignedIds' = assignedIds
           ELSE IF \E i \in 1..Len(current) :
                      toLowerCase(EmailOf(current[i])) = toLowerCase(body.email)
           THEN /\ calls' = Answered(c, request,
                                        [code |-> 409,
                                         body |-> [error |-> "Email already registered"]],
                                        "none")
                /\ data' = data
                /\ assignedIds' = assignedIds
           ELSE LET r == ServiceCreate(data, name, body)
                IN  /\ data' = r.data
                    /\ calls' = Suspended(c, request, r.data, "created", r.newItem)
                    /\ assignedIds' = assignedIds \cup {r.newItem.id}
    /\ UNCHANGED <<variant, users, nextId, req, resp, file, nCreated, deletedIds>>

\* One of two POST /users dispatched together starts to run.
FilePostCall(c) ==
    /\ calls[c].pc = "dispatched"
    /\ FilePostRun(c, calls[c].name, calls[c].body)

\* A POST /:name arrives while call c is free.  The model stops creating
\* when the next id would exceed MAX_USERS (the file-backed application has
\* no such limit).
FilePost(c, name, body) ==
    /\ calls[c].pc = "idle"
    /\ isArray(find(data, name)) => ServiceCreate(data, name, body).newItem.id <= MAX_USERS
    /\ FilePostRun(c, name, body)

\* The reply of DELETE /:name/:id once deleteById has returned.
DeleteReply(deleted) ==
    IF deleted = UndefinedItem
    THEN FileNotFound
    ELSE [code |-> 200, body |-> [success |-> TRUE, deleted |-> deleted]]

\* A DELETE /:name/:id arrives while call c is free: Service.deleteById up
\* to its `await write()`, or to its return when it does not write.
FileDelete(c, name, id) ==
    /\ variant = "file"
    /\ calls[c].pc = "idle"
    /\ LET request == [method |-> "DELETE", name |-> name, id |-> id]
           r == deleteById(data, name, id)
       IN  /\ data' = r.data
           /\ calls' = IF r.write
                       THEN Suspended(c, request, r.data, "deleted", r.deleted)
                       ELSE Answered(c, request, DeleteReply(r.deleted), "none")
    /\ UNCHANGED <<variant, users, nextId, req, resp, file, nCreated, assignedIds, deletedIds>>

\* A GET /:name arrives while call c is free; the handler has no await.
FileList(c, name) ==
    /\ variant = "file"
    /\ calls[c].pc = "idle"
    /\ LET request == [method |-> "GET", name |-> name]
           found == find(data, name)
       IN  calls' = Answered(c, request,
                             IF found = Undefined
                             THEN FileNotFound
                             ELSE [code |-> 200, body |-> found],
                             "none")
    /\ UNCHANGED <<variant, users, nextId, req, resp, data, file, nCreated, assignedIds,
                   deletedIds>>

\* A GET /:name/:id arrives while call c is free; the handler has no await.
FileGet(c, name, id) ==
    /\ variant = "file"
    /\ calls[c].pc = "idle"
    /\ LET request == [method |-> "GET", name |-> name, id |-> id]
           s == findById(data, name, id)
       IN  /\ data' = s.data
           /\ calls' = Answered(c, request,
                                IF s.item = UndefinedItem
                                THEN FileNotFound
                                ELSE [code |-> 200, body |-> s.item],
                                "none")
    /\ UNCHANGED <<variant, users, nextId, req, resp, file, nCreated, assignedIds, deletedIds>>

\* The reply of the handler that resumes after its write: 201 with the item
\* for a create, the reply of the delete for a delete.
ResumeReply(call) ==
    IF "created" \in DOMAIN call
    THEN [code |-> 201, body |-> call.created]
    ELSE DeleteReply(call.deleted)

WriteFailedSwallowed(c) ==
    /\ calls[c].pc = "write"
    /\ file' \in {file, NoData}
    /\ calls' = Settled(c, ResumeReply(calls[c]), "failed")
    /\ UNCHANGED <<variant, users, nextId, req, resp, data, nCreated, assignedIds, deletedIds>>

\* fs.writeFile calls back without an error: the file holds the text that
\* was passed, the promise resolves and the handler replies.
WriteDone(c) ==
    /\ calls[c].pc = "write"
    /\ file' = calls[c].snapshot
    /\ calls' = Settled(c, ResumeReply(calls[c]), "done")
    /\ UNCHANGED <<variant, users, nextId, req, resp, data, nCreated, assignedIds, deletedIds>>

\* fs.writeFile calls back with an error: the promise rejects, the handler
\* throws and the error handler replies 500.  The file is as it was, or no
\* longer parses (Database.read would then return {}).
WriteFailed(c) ==
    /\ calls[c].pc = "write"
    /\ file' \in {file, NoData}
    /\ calls' = Settled(c, [code |-> 500, body |-> [error |-> "An error has occurred"]], "failed")
    /\ UNCHANGED <<variant, users, nextId, req, resp, data, nCreated, assignedIds, deletedIds>>

\* The reply of call c has been sent; the call is free for the next request.
CallReplySent(c) ==
    /\ calls[c].pc = "replied"
    /\ calls' = [calls EXCEPT ![c] = [pc |-> "idle"]]
    /\ UNCHANGED <<variant, users, nextId, req, resp, data, file, nCreated, assignedIds, deletedIds>>

\* ------------------------------------------------------ end of an exchange

\* reply.code(..).send(..) has returned the reply to the client; the server
\* is ready for the next request.  The store is not touched.
ReplySent ==
    /\ req # NoRequest
    /\ req' = NoRequest
    /\ resp' = NoReply
    /\ UNCHANGED <<variant, users, nextId, data, file, calls, nCreated, assignedIds, deletedIds>>

\* ------------------------------------------------------ specifications

\* app.ts after module load: `let users = []`, `let nextId = 1`.
InitMem ==
    /\ variant = "mem"
    /\ users = << >>
    /\ nextId = 1
    /\ req = NoRequest
    /\ resp = NoReply
    /\ data = NoData
    /\ file = NoData
    /\ calls = NoCalls
    /\ nCreated = 0
    /\ assignedIds = {}
    /\ deletedIds = {}

NextMem ==
    \/ Health
    \/ GetUsers
    \/ \E n \in Names, e \in Emails : PostUsers(n, e)
    \/ \E id \in IdInputs, b \in UpdateBodies : PutUser(id, b)
    \/ \E id \in IdInputs : DeleteUser(id)
    \/ \E err \in Faults : ErrorHandler(err)
    \/ ReplySent

Spec == InitMem /\ [][NextMem]_vars

\* The contents db/data.json is started with: unreadable, an empty users
\* collection, one user, and two users of which one has an id above MAX_USERS
\* (the file-backed variant has no id limit).
FileContents ==
    { NoData,
      [users |-> << >>],
      [users |-> << [id |-> 1, name |-> "Ann", email |-> <<97, 64, 120, 46, 105>>] >>],
      [users |-> << [id |-> 1, name |-> "Ann", email |-> <<97, 64, 120, 46, 105>>],
                    [id |-> MAX_USERS + 1, name |-> "Bob", email |-> <<98, 64, 120, 46, 105>>] >>] }

\* part_001 after createApp: `new Service('db/data.json')` has read the file.
InitFile ==
    /\ variant = "file"
    /\ users = << >>
    /\ nextId = 1
    /\ req = NoRequest
    /\ resp = NoReply
    /\ file \in FileContents
    /\ data = file
    /\ calls = NoCalls
    /\ nCreated = 0
    /\ assignedIds = {}
    /\ deletedIds = {}

\* Both applications, one request at a time: the in-memory routes and the
\* file-backed lookup, the only route of the repository that reads one
\* record by id.
NextIds ==
    \/ NextMem
    \/ \E name \in RouteNames, id \in FileIdInputs : FileGetById(name, id)

SpecIds == (InitMem \/ InitFile) /\ [][NextIds]_vars

\* Two POST /users with case-insensitively equal emails, dispatched at once
\* to either application.
InitRace ==
    /\ variant \in {"mem", "file"}
    /\ users = << >>
    /\ nextId = 1
    /\ req = NoRequest
    /\ resp = NoReply
    /\ file \in (IF variant = "file" THEN FileContents \ {NoData} ELSE {NoData})
    /\ data = file
    /\ calls \in [Racers -> { [pc |-> "dispatched", method |-> "POST", name |-> "users",
                                body |-> [name |-> n, email |-> e]] :
                               n \in Names, e \in Emails }]
    /\ \A c, d \in Racers :
          toLowerCase(calls[c].body.email) = toLowerCase(calls[d].body.email)
    /\ nCreated = 0
    /\ assignedIds = {}
    /\ deletedIds = {}

NextRace ==
    \/ \E c \in Racers : MemPostCall(c)
    \/ \E c \in Racers : FilePostCall(c)
    \/ \E c \in Racers : WriteDone(c)
    \/ \E c \in Racers : WriteFailed(c)

SpecRace == InitRace /\ [][NextRace]_vars

\* The file-backed application serving creates, deletes and lookups, of
\* which up to two are in progress at once, from a file that is unreadable,
\* holds an empty users collection, or holds one user.
InitServe ==
    /\ variant = "file"
    /\ users = << >>
    /\ nextId = 1
    /\ req = NoRequest
    /\ resp = NoReply
    /\ file \in { f \in FileContents : f = NoData \/ Len(f.users) <= 1 }
    /\ data = file
    /\ calls = [c \in Racers |-> [pc |-> "idle"]]
    /\ nCreated = 0
    /\ assignedIds = (IF file = NoData THEN {} ELSE IdsOf(file.users))
    /\ deletedIds = {}

\* The file-backed application is up and no reply is waiting to be sent: a
\* handler that replies does so before the server takes the next request or
\* callback.
Serving == variant = "file" /\ \A c \in DOMAIN calls : calls[c].pc # "replied"

\* The steps of the file-backed application in which no file write fails.
NextWritten ==
    \/ /\ Serving
       /\ \E c \in Racers, name \in RouteNames, body \in FileBodies : FilePost(c, name, body)
    \/ /\ Serving
       /\ \E c \in Racers, name \in RouteNames, id \in ServeIds : FileDelete(c, name, id)
    \/ /\ Serving
       /\ \E c \in Racers, name \in RouteNames : FileList(c, name)
    \/ /\ Serving
       /\ \E c \in Racers, name \in RouteNames, id \in ServeIds : FileGet(c, name, id)
    \/ Serving /\ \E c \in Racers : WriteDone(c)
    \/ \E c \in DOMAIN calls : CallReplySent(c)

NextServe ==
    \/ NextWritten
    \/ Serving /\ \E c \in Racers : WriteFailed(c)

SpecServe == InitServe /\ [][NextServe]_vars

\* Either application, as deployed and served above.
SpecBoth == (InitMem \/ InitServe) /\ [][NextMem \/ NextServe]_vars

\* The file-backed application on a disk where every write succeeds.
SpecWritten == InitServe /\ [][NextWritten]_vars

\* The collections of a menu: findById treats the name "categories" apart.
MenuNames == {"categories", "dishes"}

\* The file-backed application started on a file with one category and one
\* dish of that category, serving lookups and deletes of both collections.
InitMenu ==
    /\ variant = "file"
    /\ users = << >>
    /\ nextId = 1
    /\ req = NoRequest
    /\ resp = NoReply
    /\ file = [categories |-> << [id |-> 1, name |-> "Soups"] >>,
               dishes |-> << [id |-> 1, name |-> "Ramen", category |-> 1] >>]
    /\ data = file
    /\ calls = [c \in Racers |-> [pc |-> "idle"]]
    /\ nCreated = 0
    /\ assignedIds = {}
    /\ deletedIds = {}

NextMenu ==
    \/ /\ Serving
       /\ \E c \in Racers, name \in MenuNames, id \in ServeIds : FileGet(c, name, id)
    \/ /\ Serving
       /\ \E c \in Racers, name \in MenuNames, id \in ServeIds : FileDelete(c, name, id)
    \/ Serving /\ \E c \in Racers : WriteDone(c)
    \/ Serving /\ \E c \in Racers : WriteFailed(c)
    \/ \E c \in DOMAIN calls : CallReplySent(c)

SpecMenu == InitMenu /\ [][NextMenu]_vars

\* The file-backed application started with an empty users collection.
InitScan == InitServe /\ file = [users |-> << >>]

SpecScan == InitScan /\ [][NextServe]_vars

\* ------------------------------------------------------ properties

LimitReached == badrequest("Cannot register more users: memory limit reached")
IdExhausted == badrequest("User ID exceeds maximum allowed value")
EmailConflict == conflict("Email already registered")
InvalidId == badrequest("Invalid user ID")
UserNotFound == notfound("User not found")

\* C1: in every reachable state of the in-memory store, no two live records
\* have emails that are equal after lowercasing, whether the emails came in
\* by create or by update.
C1_EmailUniqueness ==
    \A i, j \in 1..Len(users) :
        i # j => toLowerCase(users[i].email) # toLowerCase(users[j].email)

\* An update has just set a record's email, the store holds two records and
\* one of the stored emails is not in lower case.
C1_Witness ==
    /\ req.method = "PUT"
    /\ "email" \in DOMAIN req.body
    /\ resp.code = 200
    /\ Len(users) >= 2
    /\ \E i \in 1..Len(users) : users[i].email # toLowerCase(users[i].email)

\* C3: in every reachable state the in-memory store holds at most MAX_USERS
\* records.
C3_CapacityBound == Len(users) <= MAX_USERS

\* The store is full and a create has just been refused.
C3_Witness ==
    /\ Len(users) = MAX_USERS
    /\ req.method = "POST"
    /\ resp.code = 400

\* C4: in every reachable state no two live records have the same id.
C4_IdUniqueness ==
    \A i, j \in 1..Len(users) : i # j => users[i].id # users[j].id

\* A create has just added a record to a store that already held one.
C4_Witness ==
    /\ req.method = "POST"
    /\ resp.code = 201
    /\ Len(users) >= 2

\* C5: every id stored in the collection or returned by a successful create
\* lies in 1..MAX_USERS, also when more than MAX_USERS creates are attempted.
C5_IdsInRange ==
    /\ \A i \in 1..Len(users) : users[i].id \in 1..MAX_USERS
    /\ assignedIds \subseteq 1..MAX_USERS
    /\ (req.method = "POST" /\ resp.code = 201) => resp.body.data.id \in 1..MAX_USERS

\* The counter has run past MAX_USERS + 1: a create beyond the MAX_USERS-th
\* reached the allocation and was refused for its id.
C5_Witness ==
    /\ nextId > MAX_USERS + 1
    /\ req.method = "POST"
    /\ resp = IdExhausted
    /\ Len(users) >= 1

\* C6 as claimed: once exactly MAX_USERS creates have succeeded, the next
\* create is answered LimitReached and leaves the size unchanged, whatever
\* updates, deletes and failed creates came in between.
C6_Original ==
    [][(nCreated = MAX_USERS /\ req'.method = "POST")
        => (resp' = LimitReached /\ Len(users') = Len(users))]_vars

\* C6 as amended: once exactly MAX_USERS creates have succeeded, the next
\* create fails and leaves the collection unchanged; it is answered
\* LimitReached when no delete has succeeded (the store is still full), and
\* otherwise EmailConflict for a taken email or else ValidationFailed because
\* the id counter is exhausted.
C6_Amended ==
    [][(nCreated = MAX_USERS /\ req'.method = "POST")
        => /\ users' = users
           /\ deletedIds = {} => (resp' = LimitReached /\ Len(users) = MAX_USERS)
           /\ deletedIds # {} =>
                resp' = IF isEmailTaken(users, req'.body.email, 0)
                        THEN EmailConflict ELSE IdExhausted]_vars

\* MAX_USERS creates have succeeded, nothing was deleted, and the next create
\* has just been answered LimitReached.
C6_Witness ==
    /\ nCreated = MAX_USERS
    /\ deletedIds = {}
    /\ req.method = "POST"
    /\ resp = LimitReached

\* C8: once a delete of an id has succeeded, every later update or delete of
\* that id is answered NotFound, no later list contains the id, and the id
\* is never in the collection again.
C8_DeleteFinality ==
    [][\A id \in deletedIds :
        /\ id \notin IdsOf(users')
        /\ (req'.method \in {"PUT", "DELETE"} /\ req'.id = id) => resp' = UserNotFound
        /\ req'.method = "GET" =>
             \A i \in 1..Len(resp'.body.data) : resp'.body.data[i].id # id]_vars

\* An update of a deleted id has just been answered 404 while the store
\* holds a record created after the deleted one.
C8_Witness ==
    /\ req.method = "PUT"
    /\ req.id \in deletedIds
    /\ resp = UserNotFound
    /\ \E i \in 1..Len(users) : users[i].id > req.id

\* C9: the ids returned by successive successful creates are strictly
\* increasing, so no id is assigned twice, even after its record was deleted.
C9_MonotonicIds ==
    [][(req'.method = "POST" /\ resp'.code = 201)
        => \A a \in assignedIds : resp'.body.data.id > a]_vars

\* A create has just succeeded after an earlier record had been deleted.
C9_Witness ==
    /\ req.method = "POST"
    /\ resp.code = 201
    /\ deletedIds # {}
    /\ Cardinality(assignedIds) >= 2

\* C10: a successful update changes only the supplied fields of the addressed
\* record: an omitted name or email keeps its value, the id is kept, every
\* other record and the order of the collection are unchanged.
C10_UpdateFrame ==
    [][(req'.method = "PUT" /\ resp'.code = 200)
        => /\ Len(users') = Len(users)
           /\ \A j \in 1..Len(users) :
                IF users[j].id = req'.id
                THEN /\ users'[j].id = users[j].id
                     /\ users'[j].name = IF "name" \in DOMAIN req'.body
                                         THEN req'.body.name ELSE users[j].name
                     /\ users'[j].email = IF "email" \in DOMAIN req'.body
                                          THEN req'.body.email ELSE users[j].email
                     /\ resp'.body.data = users'[j]
                ELSE users'[j] = users[j]]_vars

\* An update that supplied only a name has just succeeded on the first of two
\* records and changed that name.
C10_Witness ==
    /\ req.method = "PUT"
    /\ DOMAIN req.body = {"name"}
    /\ resp.code = 200
    /\ Len(users) = 2
    /\ users[1].id = req.id
    /\ users[1].name # users[2].name

\* C2: of two create requests with the same email (in any letter case) that
\* are dispatched together, at most one is answered 201, however the handlers
\* interleave, in the in-memory and in the file-backed variant.
C2_AtMostOneCreated ==
    Cardinality({ c \in DOMAIN calls :
                    calls[c].pc = "replied" /\ calls[c].reply.code = 201 }) <= 1

\* File-backed variant: one handler is suspended in its file write while the
\* other, run in between, has been refused with 409.
C2_Witness ==
    /\ variant = "file"
    /\ \E c, d \in DOMAIN calls :
          /\ calls[c].pc = "write"
          /\ calls[d].pc = "replied"
          /\ calls[d].reply.code = 409
          /\ calls[c].body.email # calls[d].body.email

C11_UpdateCheckOrder ==
    [][(req'.method = "PUT" /\ req'.id \in 1..MAX_USERS)
        => LET present == \E i \in 1..Len(users) : users[i].id = req'.id
               clash == /\ "email" \in DOMAIN req'.body
                        /\ \E j \in 1..Len(users) :
                              /\ users[j].id # req'.id
                              /\ toLowerCase(users[j].email) = toLowerCase(req'.body.email)
           IN  /\ ~present => (resp' = UserNotFound /\ users' = users)
               /\ (present /\ clash) => (resp' = EmailConflict /\ users' = users)
               /\ (present /\ ~clash) => resp'.code = 200]_vars

\* An update of an absent id whose new email a live record holds in another
\* letter case has just been answered NotFound.
C11_Witness ==
    /\ req.method = "PUT"
    /\ req.id \in 1..MAX_USERS
    /\ req.id \notin IdsOf(users)
    /\ "email" \in DOMAIN req.body
    /\ \E j \in 1..Len(users) :
          /\ users[j].email # req.body.email
          /\ toLowerCase(users[j].email) = toLowerCase(req.body.email)
    /\ resp = UserNotFound

\* C12: a create tests the capacity first, then the email, then the range of
\* the fresh id, and is answered by the first test that fails: LimitReached
\* when the store is full (also for a duplicate email), else EmailConflict
\* when the email is taken in any letter case (also when the id counter has
\* left 1..MAX_USERS), else ValidationFailed when the counter has left
\* 1..MAX_USERS, else 201.
C12_CreateCheckOrder ==
    [][req'.method = "POST"
        => LET full == Len(users) >= MAX_USERS
               taken == \E i \in 1..Len(users) :
                           toLowerCase(users[i].email) = toLowerCase(req'.body.email)
               exhausted == nextId \notin 1..MAX_USERS
           IN  /\ full => resp' = LimitReached
               /\ (~full /\ taken) => resp' = EmailConflict
               /\ (~full /\ ~taken /\ exhausted) => resp' = IdExhausted
               /\ (~full /\ ~taken /\ ~exhausted) => resp'.code = 201]_vars

\* A create whose email a live record holds has just been answered
\* EmailConflict although the id counter is past MAX_USERS.
C12_Witness ==
    /\ req.method = "POST"
    /\ nextId > MAX_USERS
    /\ Len(users) < MAX_USERS
    /\ \E i \in 1..Len(users) : toLowerCase(users[i].email) = toLowerCase(req.body.email)
    /\ resp = EmailConflict

\* C13: an unexpected internal fault is answered with a generic 500 failure
\* envelope that exposes no internal detail: the body sent is the one any
\* other fault would have produced, whatever the message of the fault raised.
C13_GenericFault ==
    req.method = "FAULT"
        => /\ resp.code = 500
           /\ resp.body.success = FALSE
           /\ resp.body.error # req.err.message
           /\ \A other \in Faults : resp.body = errorHandler(other).body

\* C14: every reply of the in-memory application is an envelope whose body
\* has the key data exactly when success is true and the key error exactly
\* when success is false, for every route and outcome, the health check and
\* the error handler included.
C14_EnvelopeExclusive ==
    resp # NoReply
        => /\ {"success", "message"} \subseteq DOMAIN resp.body
           /\ resp.body.success \in BOOLEAN
           /\ ("data" \in DOMAIN resp.body) <=> resp.body.success
           /\ ("error" \in DOMAIN resp.body) <=> ~resp.body.success

\* The health check has just been answered with a null payload while the
\* store holds a record.
C14_Witness ==
    /\ req.method = "HEALTH"
    /\ resp.body.success
    /\ resp.body.data = Null
    /\ Len(users) >= 1

C16_SuccessAfterWrite ==
    [][\A c \in DOMAIN calls :
        (/\ calls'[c].pc = "replied"
         /\ calls[c].pc # "replied"
         /\ calls'[c].method \in {"POST", "DELETE"}
         /\ calls'[c].reply.code \in {200, 201})
        => /\ calls[c].pc = "write"
           /\ file' = calls[c].snapshot
           /\ calls'[c].name \in DOMAIN file'
           /\ LET written == file'[calls'[c].name]
              IN  IF calls'[c].method = "POST"
                  THEN \E i \in 1..Len(written) : written[i] = calls'[c].reply.body
                  ELSE \A i \in 1..Len(written) : written[i].id # calls'[c].id]_vars

\* A delete has just been answered 200 and the file holds the collection
\* without the record, while the write of another request is pending.
C16_Witness ==
    \E c, d \in DOMAIN calls :
        /\ calls[c].pc = "replied"
        /\ calls[c].method = "DELETE"
        /\ calls[c].reply.code = 200
        /\ calls[c].persist = "done"
        /\ calls[d].pc = "write"
        /\ file # NoData
        /\ \A i \in 1..Len(file.users) : file.users[i].id # calls[c].id

\* C17: when the file write of a create or delete fails, the request is
\* answered 500, never 200 or 201, and the data in memory is left as it is:
\* the mutation is not rolled back.
C17_FailedWrite ==
    [][\A c \in DOMAIN calls :
        (/\ calls[c].pc = "write"
         /\ calls'[c].pc = "replied"
         /\ calls'[c].persist = "failed")
        => /\ calls'[c].reply.code = 500
           /\ calls'[c].reply.body = [error |-> "An error has occurred"]
           /\ data' = data]_vars

\* A create has just been answered 500 while the data in memory holds its
\* item and the file does not.
C17_Witness ==
    \E c \in DOMAIN calls :
        /\ calls[c].pc = "replied"
        /\ calls[c].method = "POST"
        /\ calls[c].reply.code = 500
        /\ calls[c].persist = "failed"
        /\ \E i \in 1..Len(data.users) : data.users[i].email = calls[c].body.email
        /\ file # NoData
        /\ \A i \in 1..Len(file.users) : file.users[i].email # calls[c].body.email

\* C18: Database.write is called once by every create or delete that
\* mutates the data, after the mutation (the text written is the data as
\* mutated); a request that fails (duplicate email, unknown collection,
\* unknown id) and a lookup reply without calling it and leave the file
\* alone; a create or delete answered 200 or 201 has gone through its one
\* write.
C18_PersistOnce ==
    [][\A c \in DOMAIN calls :
        /\ (calls'[c].pc = "write" /\ calls[c].pc # "write")
            => /\ calls[c].pc = "idle"
               /\ data' # data
               /\ calls'[c].snapshot = data'
               /\ file' = file
        /\ (calls'[c].pc = "replied" /\ calls[c].pc # "replied")
            => LET call == calls'[c]
               IN  /\ (call.method = "GET" \/ call.reply.code \in {404, 409})
                       => /\ calls[c].pc = "idle"
                          /\ call.persist = "none"
                          /\ file' = file
                   /\ (call.method # "GET" /\ call.reply.code \in {200, 201})
                       => /\ calls[c].pc = "write"
                          /\ call.persist = "done"]_vars

\* A create with an email the collection holds in another letter case has
\* just been answered 409 without a write, while the write of another
\* request is pending.
C18_Witness ==
    \E c, d \in DOMAIN calls :
        /\ calls[c].pc = "replied"
        /\ calls[c].method = "POST"
        /\ calls[c].reply.code = 409
        /\ calls[c].persist = "none"
        /\ \E i \in 1..Len(data.users) :
              /\ data.users[i].email # calls[c].body.email
              /\ toLowerCase(data.users[i].email) = toLowerCase(calls[c].body.email)
        /\ calls[d].pc = "write"

\* C19: a list of the in-memory application never fails and is a pure read:
\* it is answered 200 with the array of live records as it stands, which is
\* in the order the records were created (ascending ids, the ids created and
\* not deleted), and it leaves the array and the id counter unchanged.
C19_ListPureRead ==
    [][req'.method = "GET"
        => /\ resp'.code = 200
           /\ resp'.body.success
           /\ resp'.body.data = users
           /\ \A i, j \in 1..Len(resp'.body.data) :
                i < j => resp'.body.data[i].id < resp'.body.data[j].id
           /\ IdsOf(resp'.body.data) = assignedIds \ deletedIds
           /\ users' = users
           /\ nextId' = nextId]_vars

\* A list has just returned two records with different names.
C19_Witness ==
    /\ req.method = "GET"
    /\ Len(resp.body.data) = 2
    /\ resp.body.data[1].name # resp.body.data[2].name
    /\ resp.body.data[1].id = 1

\* C20: a successful delete removes exactly the record with the given id
\* and returns it with the field values it had at that moment; the records
\* before it keep their places, those after it move up by one in the same
\* order, and the size decreases by one; in the in-memory and in the
\* file-backed application.
C20_DeleteFrame ==
    [][/\ (req'.method = "DELETE" /\ resp'.code = 200)
            => \E i \in 1..Len(users) :
                  /\ users[i].id = req'.id
                  /\ resp'.body.data = users[i]
                  /\ Len(users') = Len(users) - 1
                  /\ \A j \in 1..(i - 1) : users'[j] = users[j]
                  /\ \A j \in i..Len(users') : users'[j] = users[j + 1]
       /\ \A c \in DOMAIN calls :
            /\ (calls'[c].pc = "write" /\ calls[c].pc # "write" /\ calls'[c].method = "DELETE")
                => LET name == calls'[c].name
                   IN  /\ DOMAIN data' = DOMAIN data
                       /\ \A other \in DOMAIN data \ {name} : data'[other] = data[other]
                       /\ \E i \in 1..Len(data[name]) :
                             /\ data[name][i].id = calls'[c].id
                             /\ calls'[c].deleted = data[name][i]
                             /\ Len(data'[name]) = Len(data[name]) - 1
                             /\ \A j \in 1..(i - 1) : data'[name][j] = data[name][j]
                             /\ \A j \in i..Len(data'[name]) : data'[name][j] = data[name][j + 1]
            /\ (calls'[c].pc = "replied" /\ calls[c].pc # "replied"
                /\ calls'[c].method = "DELETE" /\ calls'[c].reply.code = 200)
                => /\ calls[c].pc = "write"
                   /\ calls'[c].reply.body.deleted = calls[c].deleted
                   /\ calls'[c].reply.body.deleted.id = calls'[c].id]_vars

\* The first of two records with different names has just been deleted and
\* returned; the second remains.
C20_Witness ==
    /\ req.method = "DELETE"
    /\ resp.code = 200
    /\ resp.body.data.id = req.id
    /\ Len(users) = 1
    /\ users[1].id > req.id
    /\ users[1].name # resp.body.data.name

C22_Original ==
    [][/\ \A i, j \in 1..Len(data'.users) : i # j => data'.users[i].id # data'.users[j].id
       /\ \A c \in DOMAIN calls :
            (calls[c].pc = "idle" /\ calls'[c].pc = "write" /\ calls'[c].method = "POST")
            => LET live == IdsOf(data.users)
                   id == calls'[c].created.id
               IN  /\ id = IF live = {} THEN 1 ELSE MaxOf(live) + 1
                   /\ (id \in assignedIds)
                        <=> (assignedIds # {} /\ id = MaxOf(assignedIds) /\ id \notin live)]_vars

\* C22 as amended: in the file-backed application, started with an empty
\* collection, a create gives the id 1 in an empty collection and else the
\* largest live id plus one, no two live records share an id, and a create
\* gives an id that was given before exactly when the max-holder (the record
\* with the largest id given so far) has been deleted; the id given again is
\* the largest live id plus one (1 when the collection was emptied), which
\* need not be the id of the max-holder.
C22_Amended ==
    [][/\ \A i, j \in 1..Len(data'.users) : i # j => data'.users[i].id # data'.users[j].id
       /\ \A c \in DOMAIN calls :
            (calls[c].pc = "idle" /\ calls'[c].pc = "write" /\ calls'[c].method = "POST")
            => LET live == IdsOf(data.users)
                   id == calls'[c].created.id
               IN  /\ id = IF live = {} THEN 1 ELSE MaxOf(live) + 1
                   /\ id \notin live
                   /\ (id \in assignedIds)
                        <=> (assignedIds # {} /\ MaxOf(assignedIds) \notin live)
                   /\ id \in assignedIds => id <= MaxOf(assignedIds)]_vars

\* A create is writing a record with id 1 into a collection that was emptied
\* after the ids 1..MAX_USERS had been given.
C22_Witness ==
    \E c \in DOMAIN calls :
        /\ calls[c].pc = "write"
        /\ calls[c].method = "POST"
        /\ calls[c].created.id = 1
        /\ MAX_USERS \in assignedIds
        /\ Len(data.users) = 1

\* C23: the in-memory store keeps an email as submitted: after a successful
\* create or update with email e the record's email is exactly e, in the
\* array and in the reply, not its lowercased form; and the uniqueness test
\* compares lowercased values: an email that differs only in letter case
\* from the stored email of another record is refused with EmailConflict.
C23_EmailCasePreserved ==
    [][/\ (req'.method = "POST" /\ resp'.code = 201)
            => /\ users'[Len(users')].email = req'.body.email
               /\ resp'.body.data.email = req'.body.email
       /\ (req'.method = "PUT" /\ resp'.code = 200 /\ "email" \in DOMAIN req'.body)
            => /\ \E i \in 1..Len(users') :
                     users'[i].id = req'.id /\ users'[i].email = req'.body.email
               /\ resp'.body.data.email = req'.body.email
       /\ (/\ req'.method \in {"POST", "PUT"}
           /\ "email" \in DOMAIN req'.body
           /\ resp'.code \in {200, 201})
            => \A i \in 1..Len(users) :
                   toLowerCase(users[i].email) = toLowerCase(req'.body.email)
                       => (req'.method = "PUT" /\ users[i].id = req'.id)]_vars

\* An update has just stored an email with a capital letter in a record
\* that held another email, next to a second record.
C23_Witness ==
    /\ req.method = "PUT"
    /\ resp.code = 200
    /\ "email" \in DOMAIN req.body
    /\ req.body.email # toLowerCase(req.body.email)
    /\ Len(users) = 2
    /\ \E i \in 1..Len(users) : users[i].id = req.id /\ users[i].email = req.body.email

\* C24: in the in-memory store a create refused with LimitReached or
\* EmailConflict leaves the id counter as it is, and, from the fresh store,
\* the k-th create that succeeds returns the id k (k in 1..MAX_USERS),
\* whatever refused creates, updates and deletes came in between.
C24_FailedCreatesKeepIds ==
    [][req'.method = "POST"
        => /\ resp' \in {LimitReached, EmailConflict} => nextId' = nextId
           /\ resp'.code = 201
                => /\ nCreated < MAX_USERS
                   /\ resp'.body.data.id = nCreated + 1
                   /\ nCreated' = nCreated + 1
                   /\ resp'.body.data.id \in 1..MAX_USERS]_vars

\* The MAX_USERS-th successful create has just returned the id MAX_USERS
\* after a delete; the store is not full.
C24_Witness ==
    /\ req.method = "POST"
    /\ resp.code = 201
    /\ resp.body.data.id = MAX_USERS
    /\ nCreated = MAX_USERS
    /\ deletedIds # {}
    /\ Len(users) < MAX_USERS

\* C25: id exhaustion is permanent in the in-memory store: once the counter
\* has passed MAX_USERS it stays there, and every later create that passes
\* the capacity and email tests is answered ValidationFailed ("User ID
\* exceeds maximum allowed value") and leaves the collection unchanged, also
\* after deletes or with the collection emptied; at most MAX_USERS creates
\* succeed in a run.
C25_ExhaustionPermanent ==
    [][/\ nextId > MAX_USERS => nextId' > MAX_USERS
       /\ nCreated' <= MAX_USERS
       /\ (nextId > MAX_USERS /\ req'.method = "POST")
            => /\ resp'.code # 201
               /\ users' = users
               /\ (/\ Len(users) < MAX_USERS
                   /\ \A i \in 1..Len(users) :
                         toLowerCase(users[i].email) # toLowerCase(req'.body.email))
                    => resp' = IdExhausted]_vars

\* A create into the emptied store has just been answered ValidationFailed
\* for the second time.
C25_Witness ==
    /\ req.method = "POST"
    /\ resp = IdExhausted
    /\ users = << >>
    /\ nCreated = MAX_USERS
    /\ nextId > MAX_USERS + 2

\* C26 as claimed: every create, update or delete of the in-memory store
\* that ends in a failure (LimitReached, EmailConflict, ValidationFailed,
\* NotFound) leaves the array and the id counter as they were.
C26_Original ==
    [][(req'.method \in {"POST", "PUT", "DELETE"} /\ resp'.code \in {400, 404, 409})
        => (users' = users /\ nextId' = nextId)]_vars

\* C26 as amended: every create, update or delete of the in-memory store
\* that ends in a failure leaves the array (records, field values, order) as
\* it was, and leaves the id counter as it was except for a create refused
\* with ValidationFailed for its id: that create has taken the counter's
\* value, which was already above MAX_USERS, and moved the counter on by one.
C26_Amended ==
    [][(req'.method \in {"POST", "PUT", "DELETE"} /\ resp'.code \in {400, 404, 409})
        => /\ users' = users
           /\ IF req'.method = "POST" /\ resp' = IdExhausted
              THEN nextId > MAX_USERS /\ nextId' = nextId + 1
              ELSE nextId' = nextId]_vars

\* A create has just been refused for its id, the first after the counter
\* left the range, by a store that holds one record less than its capacity.
C26_Witness ==
    /\ req.method = "POST"
    /\ resp = IdExhausted
    /\ nextId = MAX_USERS + 2
    /\ Len(users) = MAX_USERS - 1

\* C27: in the file-backed application, with creates and deletes in
\* progress together and every file write completing without an error, once
\* no write is pending the file holds the data in memory: no write of an
\* older snapshot lands on a newer one.
C27_FileFollowsData ==
    (\A c \in DOMAIN calls : calls[c].pc # "write") => file = data

\* C28: in the file-backed application a lookup by id is a pure read for
\* every collection name: it is answered with the record of the collection
\* whose id is the given id, or 404 when there is none, and it leaves the
\* data in memory, hence what the next write puts in the file, unchanged.
C28_LookupPureRead ==
    [][\A c \in DOMAIN calls :
        (/\ calls[c].pc = "idle"
         /\ calls'[c].pc = "replied"
         /\ calls'[c].method = "GET"
         /\ "id" \in DOMAIN calls'[c])
        => /\ data' = data
           /\ file' = file
           /\ LET name == calls'[c].name
                  id == calls'[c].id
              IN  IF name \in DOMAIN data /\ id \in IdsOf(data[name])
                  THEN /\ calls'[c].reply.code = 200
                       /\ \E i \in 1..Len(data[name]) :
                             data[name][i].id = id /\ calls'[c].reply.body = data[name][i]
                  ELSE calls'[c].reply = FileNotFound]_vars

====
